---- MODULE Spec2Model ----
(***************************************************************************)
(* A model of bot.py, the SOMC '63 Telegram schedule notifier.             *)
(*                                                                         *)
(* Python strings are sequences of one-character strings, so that the      *)
(* parsers (split, strip, int) and html.escape are computed as the code    *)
(* computes them.  A JSON object is a function whose domain is the set of  *)
(* keys that are present, so that dict.get(key, default) has both cases.   *)
(* A JSON number found where the code expects a string or a list is one of *)
(* the two values NotAString and NotAList.                                 *)
(***************************************************************************)
EXTENDS Integers, Sequences, FiniteSets, TLC

VARIABLES
    disk,       \* whether SCHEDULE_FILE can be opened and parsed
    file,       \* the document stored at SCHEDULE_FILE
    today,      \* what get_today_name() returns
    clock,      \* now.hour * 60 + now.minute
    token,      \* TELEGRAM_BOT_TOKEN
    channel,    \* TELEGRAM_CHANNEL_ID
    budget,     \* how many sends the transport still lets fail
    main,       \* position of the __main__ block
    nextCheck,  \* next due time of the interval job
    firings,    \* how many times the interval job became due
    daily,      \* the run of job_send_today / send_telegram_messages
    alert,      \* the run of send_preclass_notifications
    lastAlert,  \* the previous finished run of send_preclass_notifications
    ret         \* the last value returned by a function called on its own

vars == <<disk, file, today, clock, token, channel, budget, main, nextCheck,
          firings, daily, alert, lastAlert, ret>>

----------------------------------------------------------------------------
(* Python str and int                                                      *)

Digits == {"0", "1", "2", "3", "4", "5", "6", "7", "8", "9"}

DigitVal(c) ==
    CASE c = "0" -> 0 [] c = "1" -> 1 [] c = "2" -> 2 [] c = "3" -> 3
      [] c = "4" -> 4 [] c = "5" -> 5 [] c = "6" -> 6 [] c = "7" -> 7
      [] c = "8" -> 8 [] c = "9" -> 9

\* str.split(c) for a one-character separator
RECURSIVE Split(_, _)
Split(s, c) ==
    IF \A i \in 1..Len(s) : s[i] # c
    THEN <<s>>
    ELSE LET k == CHOOSE i \in 1..Len(s) :
                      s[i] = c /\ \A j \in 1..(i - 1) : s[j] # c
         IN  <<SubSeq(s, 1, k - 1)>> \o Split(SubSeq(s, k + 1, Len(s)), c)

\* str.strip()
RECURSIVE LStrip(_)
LStrip(s) == IF s # <<>> /\ s[1] = " " THEN LStrip(Tail(s)) ELSE s

RECURSIVE RStrip(_)
RStrip(s) ==
    IF s # <<>> /\ s[Len(s)] = " " THEN RStrip(SubSeq(s, 1, Len(s) - 1)) ELSE s

Strip(s) == RStrip(LStrip(s))

\* str.join(parts) with separator sep
RECURSIVE Join(_, _)
Join(sep, parts) ==
    IF parts = <<>> THEN <<>>
    ELSE IF Len(parts) = 1 THEN parts[1]
    ELSE parts[1] \o sep \o Join(sep, Tail(parts))

\* sub in s, for strings
Contains(s, sub) ==
    \E i \in 0..(Len(s) - Len(sub)) : SubSeq(s, i + 1, i + Len(sub)) = sub

\* int(s): surrounding whitespace and one sign are accepted, then digits only
IntBody(s) ==
    LET t == Strip(s)
    IN  IF t # <<>> /\ t[1] \in {"+", "-"} THEN Tail(t) ELSE t

IntOk(s) == IntBody(s) # <<>> /\ \A i \in 1..Len(IntBody(s)) : IntBody(s)[i] \in Digits

RECURSIVE DigitsValue(_)
DigitsValue(s) ==
    IF s = <<>> THEN 0
    ELSE DigitsValue(SubSeq(s, 1, Len(s) - 1)) * 10 + DigitVal(s[Len(s)])

IntValue(s) ==
    LET t == Strip(s)
    IN  IF t[1] = "-" THEN 0 - DigitsValue(IntBody(s)) ELSE DigitsValue(IntBody(s))

\* html.escape(s), quote=True
EscapeChar(c) ==
    CASE c = "&" -> <<"&", "a", "m", "p", ";">>
      [] c = "<" -> <<"&", "l", "t", ";">>
      [] c = ">" -> <<"&", "g", "t", ";">>
      [] c = "\"" -> <<"&", "q", "u", "o", "t", ";">>
      [] c = "'" -> <<"&", "#", "x", "2", "7", ";">>
      [] OTHER -> <<c>>

RECURSIVE html_escape(_)
html_escape(s) ==
    IF s = <<>> THEN <<>> ELSE EscapeChar(s[1]) \o html_escape(Tail(s))

\* dict.get(key, default)
Get(obj, key, default) == IF key \in DOMAIN obj THEN obj[key] ELSE default

----------------------------------------------------------------------------
(* Literals of the program                                                 *)

All == <<"A", "l", "l">>
BATCHES == << <<"A">>, <<"B">>, <<"C">>, <<"D">>, <<"E">> >>
Unknown == <<"U", "n", "k", "n", "o", "w", "n">>
TBA == <<"T", "B", "A">>
Lecture == <<"L", "e", "c", "t", "u", "r", "e">>
Practical == <<"P", "r", "a", "c", "t", "i", "c", "a", "l">>
Tutorial == <<"T", "u", "t", "o", "r", "i", "a", "l">>
AllBatches == <<"A", "l", "l", " ", "B", "a", "t", "c", "h", "e", "s">>
HolidayText == "No classes scheduled today! (Holiday)"
NoBatchText == "No classes scheduled for this batch today!"
AgendaText == "Have a productive day!"
UnparseableKey == 999

Range(s) == {s[i] : i \in 1..Len(s)}

\* "time": 900 and "batches": 5 in the document: values that are no str and
\* no list
NotAString == <<"900 (a number)">>
NotAList == <<<<"5 (a number)">>>>

\* str(x)
str(x) == IF x = NotAString THEN <<"9", "0", "0">> ELSE x

----------------------------------------------------------------------------
(* The two time parsers.  A parse result is [ok, v]: ok is FALSE where the *)
(* code's try block raises.                                                *)

\* hour, minute = map(int, s.split(':')) ; hour * 60 + minute
HourMinute(s) ==
    LET parts == Split(s, ":")
    IN  IF Len(parts) = 2 /\ IntOk(parts[1]) /\ IntOk(parts[2])
        THEN [ok |-> TRUE, v |-> IntValue(parts[1]) * 60 + IntValue(parts[2])]
        ELSE [ok |-> FALSE, v |-> 0]

\* the bare except of line 44 also catches the AttributeError of a time that
\* is no string
parse_time_for_sorting(time_str) ==
    LET start_time == Strip(Split(time_str, "-")[1])
        hm == HourMinute(start_time)
    IN  IF time_str = NotAString THEN UnparseableKey
        ELSE IF hm.ok THEN hm.v ELSE UnparseableKey

parse_time_to_minutes(time_str) == HourMinute(time_str)

----------------------------------------------------------------------------
(* compose_batch_message and build_batch_messages                          *)

\* line 67 without its wildcard test
AppliesNoWildcard(batches, batch) ==
    \/ batch \in Range(batches)
    \/ Range(batches) = Range(BATCHES)

\* the test of line 67
Applies(batches, batch) ==
    \/ All \in Range(batches)
    \/ batch \in Range(batches)
    \/ Range(batches) = Range(BATCHES)

applicable_activities(activities, batch) ==
    LET Test(act) == Applies(Get(act, "batches", <<>>), batch)
    IN  SelectSeq(activities, Test)

\* lines 59-71: the (time_str, applicable_activities) pairs, in document order
RECURSIVE collect_batch_slots(_, _)
collect_batch_slots(day, batch) ==
    IF day = <<>> THEN <<>>
    ELSE LET slot == day[1]
             time_str == Get(slot, "time", <<>>)
             acts == applicable_activities(Get(slot, "activities", <<>>), batch)
             rest == collect_batch_slots(Tail(day), batch)
         IN  IF acts # <<>> THEN <<[time |-> time_str, acts |-> acts]>> \o rest
             ELSE rest

\* list.sort(key=...) is stable: an element goes after every element already
\* placed whose key is not greater than its own
InsertByKey(sorted, x) ==
    LET p == Cardinality({i \in 1..Len(sorted) :
                 parse_time_for_sorting(sorted[i].time)
                     <= parse_time_for_sorting(x.time)})
    IN  SubSeq(sorted, 1, p) \o <<x>> \o SubSeq(sorted, p + 1, Len(sorted))

RECURSIVE SortSlots(_)
SortSlots(s) ==
    IF s = <<>> THEN <<>>
    ELSE InsertByKey(SortSlots(SubSeq(s, 1, Len(s) - 1)), s[Len(s)])

\* lines 59-77
batch_slots(day, batch) == SortSlots(collect_batch_slots(day, batch))

\* line 95 and line 238
type_emoji(type) ==
    IF Contains(type, Lecture) THEN "book"
    ELSE IF Contains(type, Practical) THEN "test tube"
    ELSE IF Contains(type, Tutorial) THEN "memo"
    ELSE "microscope"

\* lines 88-97: the two lines rendered for one activity
RenderActivity(act) ==
    [emoji |-> type_emoji(Get(act, "type", <<>>)),
     subject |-> html_escape(Get(act, "subject", Unknown)),
     type |-> html_escape(Get(act, "type", <<>>)),
     location |-> html_escape(Get(act, "location", TBA))]

\* lines 84-98
RenderSlot(entry) ==
    [time |-> html_escape(str(entry.time)),
     acts |-> [i \in 1..Len(entry.acts) |-> RenderActivity(entry.acts[i])]]

\* schedule.get(day_name) is falsy: the key is missing or its list is empty
NotDay(schedule, day_name) ==
    day_name \notin DOMAIN schedule \/ schedule[day_name] = <<>>

\* The returned text is a fixed template around the interpolated values; the
\* record holds the values and, in body, which of the three templates it is.
compose_batch_message(schedule, day_name, batch) ==
    LET safe_batch == html_escape(batch)
        safe_day_name == html_escape(day_name)
    IN  IF NotDay(schedule, day_name)
        THEN [batch |-> safe_batch, day |-> safe_day_name,
              body |-> HolidayText, entries |-> <<>>]
        ELSE LET slots == batch_slots(schedule[day_name], batch)
             IN  IF slots = <<>>
                 THEN [batch |-> safe_batch, day |-> safe_day_name,
                       body |-> NoBatchText, entries |-> <<>>]
                 ELSE [batch |-> safe_batch, day |-> safe_day_name,
                       body |-> AgendaText,
                       entries |-> [i \in 1..Len(slots) |-> RenderSlot(slots[i])]]

\* line 67 raises TypeError on a batches value that is no container: the
\* day has slots and one of its activities has such a value
ComposeRaises(schedule, day_name) ==
    /\ ~NotDay(schedule, day_name)
    /\ \E slot \in Range(schedule[day_name]) :
          \E act \in Range(Get(slot, "activities", <<>>)) :
             Get(act, "batches", <<>>) = NotAList

\* lines 105-111 leaving out the audiences that have no agenda
BuildWithoutEmpty(schedule, day_name) ==
    LET all == [i \in 1..Len(BATCHES) |->
                   [batch |-> BATCHES[i],
                    message |-> compose_batch_message(schedule, day_name,
                                                      BATCHES[i])]]
        HasAgenda(m) == m.message.body = AgendaText
    IN  SelectSeq(all, HasAgenda)

build_batch_messages(schedule, day_name) ==
    [i \in 1..Len(BATCHES) |->
        [batch |-> BATCHES[i],
         message |-> compose_batch_message(schedule, day_name, BATCHES[i])]]

----------------------------------------------------------------------------
(* get_upcoming_classes                                                    *)

DefaultLookahead == 15

\* line 214 with both ends left out of the window
InWindowOpen(time_until_class, notify_minutes_before) ==
    0 < time_until_class /\ time_until_class < notify_minutes_before

\* line 214 with the upper end left out of the window
InWindowOpenEnd(time_until_class, notify_minutes_before) ==
    0 <= time_until_class /\ time_until_class < notify_minutes_before

\* line 214
InWindow(time_until_class, notify_minutes_before) ==
    0 <= time_until_class /\ time_until_class <= notify_minutes_before

\* lines 215-225: one entry per activity of a qualifying slot
UpcomingOf(slot, time_range, start_time, time_until_class) ==
    LET activities == Get(slot, "activities", <<>>)
    IN  [i \in 1..Len(activities) |->
            [time |-> time_range,
             start_time |-> start_time,
             subject |-> Get(activities[i], "subject", Unknown),
             type |-> Get(activities[i], "type", <<>>),
             location |-> Get(activities[i], "location", TBA),
             batches |-> Get(activities[i], "batches", <<>>),
             minutes_until |-> time_until_class]]

\* lines 200-225, the loop over the slots of the day
RECURSIVE upcoming_classes(_, _, _)
upcoming_classes(day, current_minutes, notify_minutes_before) ==
    IF day = <<>> THEN <<>>
    ELSE LET slot == day[1]
             time_range == Get(slot, "time", <<>>)
             start_time == Strip(Split(time_range, "-")[1])
             start_minutes == parse_time_to_minutes(start_time)
             time_until_class == start_minutes.v - current_minutes
             rest == upcoming_classes(Tail(day), current_minutes,
                                      notify_minutes_before)
         IN  IF "-" \notin Range(time_range) THEN rest
             ELSE IF ~start_minutes.ok THEN rest
             ELSE IF InWindow(time_until_class, notify_minutes_before)
             THEN UpcomingOf(slot, time_range, start_time, time_until_class)
                      \o rest
             ELSE rest

\* line 202 raises TypeError on a time that is no string
DetectRaises(schedule, day_name) ==
    /\ ~NotDay(schedule, day_name)
    /\ \E slot \in Range(schedule[day_name]) :
          Get(slot, "time", <<>>) = NotAString

\* current_minutes is what lines 183-192 read from the clock
get_upcoming_classes(schedule, day_name, current_minutes, notify_minutes_before) ==
    IF NotDay(schedule, day_name) THEN <<>>
    ELSE upcoming_classes(schedule[day_name], current_minutes,
                          notify_minutes_before)

----------------------------------------------------------------------------
(* send_telegram_messages                                                  *)

\* the result of one requests.post: status 200, another status, an exception
Outcomes == {"ok", "failed", "exception"}

\* line 131 testing the token alone
NoToken == token = <<>>

\* line 131
NoCredentials == token = <<>> \/ channel = <<>>

\* lines 131-140: without credentials every message is printed and the
\* function returns; with them the loop starts
send_telegram_messages(messages) ==
    IF NoCredentials
    THEN [pc |-> "done", messages |-> messages, i |-> 0, successful_sends |-> 0,
          trace |-> <<>>,
          sink |-> [k \in 1..Len(messages) |-> messages[k].message]]
    ELSE [pc |-> IF messages = <<>> THEN "done" ELSE "sending",
          messages |-> messages, i |-> 0, successful_sends |-> 0,
          trace |-> <<>>, sink |-> <<>>]

\* lines 150-164 where an exception of requests.post ends the loop
PostedAborting(run, outcome) ==
    LET m == run.messages[run.i + 1]
        post == [op |-> "post", batch |-> m.batch, text |-> m.message,
                 outcome |-> outcome]
    IN  [run EXCEPT
            !.trace = @ \o <<post>>,
            !.successful_sends = IF outcome = "ok" THEN @ + 1 ELSE @,
            !.i = @ + 1,
            !.pc = IF run.i + 1 = Len(run.messages) \/ outcome # "ok"
                   THEN "done" ELSE "sending"]

\* lines 142-164 counting into a counter that both jobs share
PostedSharedCount(run, outcome) ==
    LET m == run.messages[run.i + 1]
        post == [op |-> "post", batch |-> m.batch, text |-> m.message,
                 outcome |-> outcome]
        sleep == IF outcome # "exception" /\ run.i < Len(run.messages) - 1
                 THEN <<[op |-> "sleep"]>> ELSE <<>>
        shared == run.successful_sends + alert.notifications_sent
    IN  [run EXCEPT
            !.trace = @ \o <<post>> \o sleep,
            !.successful_sends = IF outcome = "ok" THEN shared + 1 ELSE shared,
            !.i = @ + 1,
            !.pc = IF run.i + 1 = Len(run.messages) THEN "done" ELSE "sending"]

\* lines 142-164, one pass of the loop: i counts the passes done.  The sleep
\* of line 161 is inside the try block, after the post, so an exception of
\* requests.post skips it.
Posted(run, outcome) ==
    LET m == run.messages[run.i + 1]
        post == [op |-> "post", batch |-> m.batch, text |-> m.message,
                 outcome |-> outcome]
        sleep == IF outcome # "exception" /\ run.i < Len(run.messages) - 1
                 THEN <<[op |-> "sleep"]>> ELSE <<>>
    IN  [run EXCEPT
            !.trace = @ \o <<post>> \o sleep,
            !.successful_sends = IF outcome = "ok" THEN @ + 1 ELSE @,
            !.i = @ + 1,
            !.pc = IF run.i + 1 = Len(run.messages) THEN "done" ELSE "sending"]

\* the transport fails a send only while its budget of failures lasts
MayBe(outcome) == outcome = "ok" \/ budget > 0

Spend(outcome) == IF outcome = "ok" THEN budget ELSE budget - 1

SendOne ==
    /\ daily.pc = "sending"
    /\ \E outcome \in Outcomes :
          /\ MayBe(outcome)
          /\ daily' = Posted(daily, outcome)
          /\ budget' = Spend(outcome)
    /\ UNCHANGED <<disk, file, today, clock, token, channel, main, nextCheck,
                   firings, alert, lastAlert, ret>>

----------------------------------------------------------------------------
(* compose_preclass_message and send_preclass_notifications                *)

CommaSpace == <<",", " ">>

\* lines 229-263: the values interpolated into the alert's template
compose_preclass_message(class_info) ==
    [urgency |-> IF class_info.minutes_until <= 5 THEN "STARTING SOON!"
                 ELSE IF class_info.minutes_until <= 10
                 THEN "Starting in a few minutes"
                 ELSE "Upcoming class",
     emoji |-> type_emoji(class_info.type),
     subject |-> html_escape(class_info.subject),
     type |-> html_escape(class_info.type),
     start_time |-> html_escape(class_info.start_time),
     location |-> html_escape(class_info.location),
     now |-> class_info.minutes_until <= 1,
     minutes |-> class_info.minutes_until]

\* lines 283-287
batch_list(batches) ==
    IF All \in Range(batches) \/ Range(batches) = Range(BATCHES)
    THEN <<AllBatches>>
    ELSE batches

\* lines 301-304: the header line put before the alert
Header(list) ==
    IF Len(list) = 1 /\ list[1] = AllBatches
    THEN AllBatches \o <<" ", "(", "A", ",", " ", "B", ",", " ", "C", ",", " ",
                         "D", ",", " ", "E", ")">>
    ELSE <<"B", "a", "t", "c", "h">>
             \o (IF Len(list) > 1 THEN <<"e", "s">> ELSE <<>>)
             \o <<" ">> \o Join(CommaSpace, list)

final_message(class_info) ==
    [header |-> Header(batch_list(class_info.batches)),
     body |-> compose_preclass_message(class_info)]

\* lines 293-296: what is printed for one alert when credentials are missing
Printed(class_info) ==
    [target |-> Join(CommaSpace, batch_list(class_info.batches)),
     text |-> compose_preclass_message(class_info)]

\* line 284 raises TypeError on the batches of this class
BadBatches(class_info) == class_info.batches = NotAList

\* how many classes the loop of line 278 handles before line 284 raises
Handled(upcoming) ==
    IF \E k \in 1..Len(upcoming) : BadBatches(upcoming[k])
    THEN (CHOOSE k \in 1..Len(upcoming) :
             /\ BadBatches(upcoming[k])
             /\ \A j \in 1..(k - 1) : ~BadBatches(upcoming[j])) - 1
    ELSE Len(upcoming)

\* lines 267-296 up to the first post: nothing upcoming ends the run; without
\* credentials every alert is printed and the run ends; an exception of
\* get_upcoming_classes or of line 284 leaves the function
send_preclass_notifications(sched, day_name, current_minutes) ==
    IF DetectRaises(sched, day_name)
    THEN [pc |-> "raised", at |-> current_minutes, sched |-> sched,
          upcoming |-> <<>>, i |-> 0, notifications_sent |-> 0,
          trace |-> <<>>, sink |-> <<>>]
    ELSE
    LET upcoming == get_upcoming_classes(sched, day_name, current_minutes,
                                         DefaultLookahead)
    IN  [pc |-> IF upcoming = <<>> THEN "done"
                ELSE IF BadBatches(upcoming[1]) THEN "raised"
                ELSE IF ~NoCredentials THEN "sending"
                ELSE IF Handled(upcoming) < Len(upcoming) THEN "raised"
                ELSE "done",
         at |-> current_minutes,
         sched |-> sched,
         upcoming |-> upcoming,
         i |-> 0,
         notifications_sent |-> 0,
         trace |-> <<>>,
         sink |-> IF NoCredentials
                  THEN [k \in 1..Handled(upcoming) |-> Printed(upcoming[k])]
                  ELSE <<>>]

\* lines 313-321 where a failure of one alert ends the loop
AlertPostedAborting(run, outcome) ==
    LET post == [op |-> "post", text |-> final_message(run.upcoming[run.i + 1]),
                 outcome |-> outcome]
    IN  [run EXCEPT
            !.trace = @ \o <<post>>,
            !.notifications_sent = IF outcome = "ok" THEN @ + 1 ELSE @,
            !.i = @ + 1,
            !.pc = IF run.i + 1 = Len(run.upcoming) \/ outcome # "ok"
                   THEN "done" ELSE "sending"]

\* lines 278-321, one pass of the loop with credentials
AlertPosted(run, outcome) ==
    LET post == [op |-> "post", text |-> final_message(run.upcoming[run.i + 1]),
                 outcome |-> outcome]
    IN  [run EXCEPT
            !.trace = @ \o <<post>>,
            !.notifications_sent = IF outcome = "ok" THEN @ + 1 ELSE @,
            !.i = @ + 1,
            !.pc = IF run.i + 1 = Len(run.upcoming) THEN "done"
                   ELSE IF BadBatches(run.upcoming[run.i + 2]) THEN "raised"
                   ELSE "sending"]

AlertSendOne ==
    /\ alert.pc = "sending"
    /\ \E outcome \in Outcomes :
          /\ MayBe(outcome)
          /\ alert' = AlertPosted(alert, outcome)
          /\ budget' = Spend(outcome)
    /\ UNCHANGED <<disk, file, today, clock, token, channel, main, nextCheck,
                   firings, daily, lastAlert, ret>>

----------------------------------------------------------------------------
(* __main__, default mode: the scheduler and its two jobs                  *)

\* the cron job's hour=7, minute=0, as a minute of the day
DailyMinute == 420
\* the interval job's minutes=5
IntervalMinutes == 5
\* how many times the interval job becomes due in a behaviour
MaxFirings == 3

\* load_schedule keeping the document the interval job read before
LoadCached == IF alert.pc = "idle" THEN file ELSE alert.sched

\* load_schedule(SCHEDULE_FILE)
load_schedule == file

\* lines 23-25: open raises on a missing file, json.load on a malformed one
LoadRaises == disk # "ok"

\* a run of job_send_today left by an exception before anything is sent
RaisedDaily ==
    [pc |-> "raised", messages |-> <<>>, i |-> 0, successful_sends |-> 0,
     trace |-> <<>>, sink |-> <<>>]

\* a run of send_preclass_notifications left by the exception of line 268
RaisedAlert(current_minutes) ==
    [pc |-> "raised", at |-> current_minutes, sched |-> <<>>,
     upcoming |-> <<>>, i |-> 0, notifications_sent |-> 0, trace |-> <<>>,
     sink |-> <<>>]

\* get_today_name()
get_today_name == today

\* lines 377-411: both jobs are added, then the scheduler runs
StartScheduler ==
    /\ main = "starting"
    /\ main' = "running"
    /\ nextCheck' = clock + IntervalMinutes
    /\ UNCHANGED <<disk, file, today, clock, token, channel, budget, firings,
                   daily, alert, lastAlert, ret>>

\* the run has not returned: it is between two posts, or inside a post
\* that does not return
StillRunning(run) == run.pc \in {"sending", "blocked"}

DailyDue == main = "running" /\ clock = DailyMinute /\ daily.pc = "idle"

IntervalDue == main = "running" /\ clock = nextCheck /\ firings < MaxFirings

\* time passes until a job is next due; the jobs read the clock as they fire
Tick ==
    /\ main = "running"
    /\ ~DailyDue
    /\ clock < nextCheck
    /\ firings < MaxFirings
    /\ clock' = IF clock < DailyMinute /\ DailyMinute < nextCheck
                THEN DailyMinute ELSE nextCheck
    /\ UNCHANGED <<disk, file, today, token, channel, budget, main, nextCheck,
                   firings, daily, alert, lastAlert, ret>>

\* lines 326-333, up to the first post; an exception of load_schedule or of
\* build_batch_messages leaves the job, and the scheduler goes on
job_send_today ==
    /\ DailyDue
    /\ daily' = IF LoadRaises \/ ComposeRaises(load_schedule, get_today_name)
                THEN RaisedDaily
                ELSE send_telegram_messages(
                         build_batch_messages(load_schedule, get_today_name))
    /\ UNCHANGED <<disk, file, today, clock, token, channel, budget, main,
                   nextCheck, firings, alert, lastAlert, ret>>

\* lines 335-337 with the classes of the previous run left out
CheckPreclassOnce ==
    /\ IntervalDue
    /\ alert.pc # "sending"
    /\ LET run == send_preclass_notifications(load_schedule, get_today_name,
                                              clock)
           Fresh(u) == \A v \in Range(alert.upcoming) :
                           v.time # u.time \/ v.subject # u.subject
           fresh == SelectSeq(run.upcoming, Fresh)
       IN  alert' = [run EXCEPT
                        !.upcoming = fresh,
                        !.pc = IF fresh = <<>> THEN "done" ELSE @,
                        !.sink = IF NoCredentials
                                 THEN [k \in 1..Len(fresh) |-> Printed(fresh[k])]
                                 ELSE <<>>]
    /\ lastAlert' = alert
    /\ nextCheck' = nextCheck + IntervalMinutes
    /\ firings' = firings + 1
    /\ UNCHANGED <<disk, file, today, clock, token, channel, budget, main, daily, ret>>

\* lines 335-337: the interval job fires; its finished previous run is kept
\* in lastAlert for the properties
job_check_preclass ==
    /\ IntervalDue
    /\ ~StillRunning(alert)
    /\ alert' = IF LoadRaises
                THEN RaisedAlert(clock)
                ELSE send_preclass_notifications(load_schedule, get_today_name,
                                                 clock)
    /\ lastAlert' = alert
    /\ nextCheck' = nextCheck + IntervalMinutes
    /\ firings' = firings + 1
    /\ UNCHANGED <<disk, file, today, clock, token, channel, budget, main, daily, ret>>

\* the interval job is due while its previous run is still sending: the
\* scheduler, which runs one instance of a job at a time, skips the firing
SkipFiring ==
    /\ IntervalDue
    /\ StillRunning(alert)
    /\ nextCheck' = nextCheck + IntervalMinutes
    /\ firings' = firings + 1
    /\ UNCHANGED <<disk, file, today, clock, token, channel, budget, main, daily,
                   alert, lastAlert, ret>>

\* line 152: requests.post is called without a timeout, and on a transport
\* that stalls it does not return
Stall ==
    /\ daily.pc = "sending"
    /\ daily' = [daily EXCEPT !.pc = "blocked"]
    /\ UNCHANGED <<disk, file, today, clock, token, channel, budget, main,
                   nextCheck, firings, alert, lastAlert, ret>>

\* line 314: the same for the post of an alert
AlertStall ==
    /\ alert.pc = "sending"
    /\ alert' = [alert EXCEPT !.pc = "blocked"]
    /\ UNCHANGED <<disk, file, today, clock, token, channel, budget, main,
                   nextCheck, firings, daily, lastAlert, ret>>

----------------------------------------------------------------------------
(* Inputs: timetable documents                                             *)

MaxSlots == 3

Monday == <<"M", "o", "n", "d", "a", "y">>
Friday == <<"F", "r", "i", "d", "a", "y">>
DayNames == {Monday, Friday}

Anatomy == <<"A", "n", "a", "t", "o", "m", "y">>
Physiology == <<"P", "h", "y", "s", "i", "o">>
Room1 == <<"R", "o", "o", "m", " ", "1">>

DigitChar(n) ==
    CASE n = 0 -> "0" [] n = 1 -> "1" [] n = 2 -> "2" [] n = 3 -> "3"
      [] n = 4 -> "4" [] n = 5 -> "5" [] n = 6 -> "6" [] n = 7 -> "7"
      [] n = 8 -> "8" [] n = 9 -> "9"

\* "HH:MM" of a minute of the day
HHMM(m) ==
    <<DigitChar((m \div 60) \div 10), DigitChar((m \div 60) % 10), ":",
      DigitChar((m % 60) \div 10), DigitChar((m % 60) % 10)>>

\* "HH:MM-HH:MM" of a one-hour class starting at minute m
TimeRange(m) == HHMM(m) \o <<"-">> \o HHMM(m + 60)

TBD == <<"T", "B", "D">>
NineNoPad == <<"9", ":", "0", "0", "-", "1", "0", ":", "0", "0">>

Act(subject, type, batches) ==
    [subject |-> subject, type |-> type, location |-> Room1, batches |-> batches]

\* the slots a day of the agenda inputs is made of
AgendaSlots ==
    { [time |-> TimeRange(540),
       activities |-> <<Act(Anatomy, Lecture, <<<<"A">>, <<"B">>>>)>>],
      [time |-> TimeRange(480),
       activities |-> <<Act(Physiology, Practical, <<All>>)>>],
      [time |-> TimeRange(1020),
       activities |-> <<Act(Anatomy, Tutorial,
                            <<<<"E">>, <<"D">>, <<"C">>, <<"B">>, <<"A">>, <<"A">>>>)>>],
      [time |-> TBD,
       activities |-> <<Act(Anatomy, Lecture, <<<<"C">>>>),
                        Act(Physiology, Lecture, <<<<"A">>>>)>>],
      [time |-> NineNoPad,
       activities |-> <<Act(Physiology, Tutorial, <<<<"A">>>>)>>],
      [activities |-> <<Act(Physiology, <<>>, <<<<"A">>, <<"F">>>>),
                        [subject |-> Anatomy]>>],
      [time |-> TimeRange(600), activities |-> <<>>],
      [time |-> TimeRange(1000),
       activities |-> <<Act(Anatomy, Lecture, <<<<"D">>, <<"E">>>>)>>] }

DaysOf(slots) == UNION {[1..k -> slots] : k \in 0..MaxSlots}

\* documents with the Monday key, and the document without any key
FilesOf(slots) == {<<>>} \cup {Monday :> d : d \in DaysOf(slots)}

AgendaFiles == FilesOf(AgendaSlots)

\* the slots a day of the detector inputs is made of
DetectSlots ==
    { [time |-> TimeRange(540),
       activities |-> <<Act(Anatomy, Lecture, <<<<"A">>, <<"B">>>>),
                        Act(Physiology, Practical, <<All>>)>>],
      [time |-> TimeRange(530),
       activities |-> <<Act(Physiology, Tutorial, <<<<"C">>>>)>>],
      [time |-> TBD,
       activities |-> <<Act(Anatomy, Lecture, <<All>>)>>],
      [time |-> HHMM(535),
       activities |-> <<Act(Anatomy, Tutorial, <<All>>)>>],
      [activities |-> <<Act(Physiology, Lecture, <<<<"A">>>>)>>] }

DetectFiles == FilesOf(DetectSlots)

\* the minutes of the day the detector is called at
FirstClock == 520
LastClock == 545
DetectClocks == FirstClock..LastClock

Lookaheads == {0, 10, DefaultLookahead}

\* the credentials of a configured deployment
Token == <<"1", "2", ":", "k", "e", "y">>
Channel == <<"@", "s", "o", "m", "c">>

\* the message lists send_telegram_messages is called with on its own
MaxMessages == 5

MessagePool ==
    { [batch |-> <<"A">>,
       message |-> compose_batch_message(<<>>, Monday, <<"A">>)],
      [batch |-> <<"B">>,
       message |-> compose_batch_message(Monday :> <<CHOOSE x \in DetectSlots :
                       Get(x, "time", <<>>) = TimeRange(540)>>, Monday, <<"B">>)] }

MessageLists == UNION {[1..n -> MessagePool] : n \in 0..MaxMessages}

\* the slots of the scheduler's documents: 07:10 with two activities, 07:20
\* with the roster enumerated, and one without a start time
Slot0710 ==
    [time |-> TimeRange(430),
     activities |-> <<Act(Anatomy, Lecture, <<<<"A">>, <<"B">>>>),
                      Act(Physiology, Practical, <<All>>)>>]

Slot0720 ==
    [time |-> TimeRange(440),
     activities |-> <<Act(Anatomy, Tutorial,
                          <<<<"B">>, <<"A">>, <<"C">>, <<"E">>, <<"D">>>>)>>]

SlotTBD ==
    [time |-> TBD, activities |-> <<Act(Physiology, Lecture, <<<<"C">>>>)>>]

\* the documents the scheduler runs on: no Monday, an empty Monday, and
\* Mondays of one to three slots
FireFiles ==
    {<<>>}
    \cup {Monday :> d : d \in {<<>>, <<Slot0710>>, <<Slot0720>>, <<SlotTBD>>,
                               <<Slot0720, Slot0710>>, <<SlotTBD, Slot0710>>,
                               <<Slot0720, SlotTBD, Slot0710>>}}

\* the minutes of the day the scheduler is started at
FirstStart == 410
StartClocks == {FirstStart, FirstStart + 3}

MaxFaults == 1

\* a batch label, a subject, a type and a place that carry markup characters
MarkupLabel == <<"<", "A", ">">>
MarkupSubject == <<"A", "&", "P">>
MarkupType == <<"<", "i", ">", "L", "e", "c", "t", "u", "r", "e">>
MarkupRoom == <<"R", "&", "D", " ", "\"", "1", "\"">>

\* a time string with markup after its start time
MarkupTime == HHMM(540) \o <<"-", "<", "1", "0", ">">>

\* the minute of the day both message builders are called at
MessageClock == 530

\* the slots a day of the message inputs is made of: every one starts within
\* the lookahead of MessageClock
MessageSlots ==
    { [time |-> TimeRange(540),
       activities |-> <<Act(Anatomy, Lecture, <<<<"A">>, <<"B">>>>)>>],
      [time |-> TimeRange(535),
       activities |-> <<Act(Physiology, Practical, <<All>>)>>],
      [time |-> TimeRange(545),
       activities |-> <<Act(Anatomy, Tutorial,
                            <<<<"E">>, <<"D">>, <<"C">>, <<"B">>, <<"A">>>>)>>],
      [time |-> TimeRange(530),
       activities |-> <<Act(Physiology, Lecture, <<AllBatches>>)>>],
      [time |-> TimeRange(531),
       activities |-> <<Act(Anatomy, Practical, <<MarkupLabel, <<"C">>>>)>>],
      [time |-> TimeRange(532),
       activities |-> <<Act(Physiology, Tutorial, <<>>)>>],
      [time |-> MarkupTime,
       activities |-> <<[subject |-> MarkupSubject, type |-> MarkupType,
                         location |-> MarkupRoom, batches |-> <<<<"D">>>>]>>] }

MessageFiles == FilesOf(MessageSlots)

\* the minutes of a day, a lookahead no start time of a day lies beyond
WholeDay == 24 * 60

SpacedTime == <<" ">> \o HHMM(540) \o <<" ", "-", " ">> \o HHMM(600)

\* the time strings the two parsers are compared on: ranges and lone start
\* times, 16:39 whose minute of the day is 999, and strings without a time
ParseStarts == DetectClocks \cup {0, 999, 1020}

ParseTimes ==
    {TimeRange(m) : m \in ParseStarts} \cup {HHMM(m) : m \in ParseStarts}
    \cup {TBD, NineNoPad, SpacedTime, <<>>}

ParseFiles ==
    {Monday :> <<[time |-> t, activities |-> <<Act(Anatomy, Lecture, <<All>>)>>]>> :
        t \in ParseTimes}

\* the last minute of a day that the clock of line 192 can read
LastMinute == 23 * 60 + 59

\* the start minutes of the slots a whole day of firings is run on, two of
\* them written with an hour past 23
DayStarts ==
    {7, 15, 16, 17, 18, 19, 20, 540, 999, LastMinute, LastMinute + 6,
     LastMinute + 61}

DayFiles ==
    {Monday :> <<[time |-> TimeRange(S),
                  activities |-> <<Act(Anatomy, Lecture, <<All>>)>>]>> :
        S \in DayStarts}

\* a slot whose time is a number, and a 07:12 slot whose activity has a
\* number for its batches
SlotNumberTime ==
    [time |-> NotAString,
     activities |-> <<Act(Physiology, Lecture, <<<<"C">>>>)>>]

SlotNumberBatches ==
    [time |-> TimeRange(432),
     activities |-> <<Act(Physiology, Tutorial, NotAList)>>]

\* documents with one entry of the wrong type beside the 07:10 slot, and the
\* document with the 07:10 slot alone
FaultyFiles ==
    {Monday :> d : d \in {<<Slot0710>>, <<Slot0710, SlotNumberTime>>,
                          <<SlotNumberTime, Slot0710>>,
                          <<Slot0710, SlotNumberBatches>>,
                          <<SlotNumberBatches, Slot0710>>}}

\* what opening and parsing SCHEDULE_FILE can come to
DiskStates == {"ok", "missing", "malformed"}

\* the documents the scheduler runs on when the transport may stall
StallFiles == {Monday :> <<Slot0710>>, Monday :> <<SlotTBD>>}

\* the documents the file is edited between while the scheduler runs
EditFiles == {Monday :> <<Slot0710>>, Monday :> <<Slot0720, Slot0710>>}

----------------------------------------------------------------------------
(* State of the runs                                                       *)

NoRet == [fn |-> "none"]

IdleDaily ==
    [pc |-> "idle", messages |-> <<>>, i |-> 0, successful_sends |-> 0,
     trace |-> <<>>, sink |-> <<>>]

IdleAlert ==
    [pc |-> "idle", at |-> 0, sched |-> <<>>, upcoming |-> <<>>, i |-> 0,
     notifications_sent |-> 0, trace |-> <<>>, sink |-> <<>>]

\* everything but the inputs of a function called on its own
Resting ==
    /\ token = <<>>
    /\ channel = <<>>
    /\ budget = 0
    /\ main = "off"
    /\ nextCheck = 0
    /\ firings = 0
    /\ daily = IdleDaily
    /\ alert = IdleAlert
    /\ lastAlert = IdleAlert
    /\ ret = NoRet

----------------------------------------------------------------------------
(* compose_batch_message called on its own                                 *)

InitCompose ==
    /\ disk = "ok"
    /\ file \in AgendaFiles
    /\ today \in DayNames
    /\ clock = FirstClock
    /\ Resting

CallCompose ==
    /\ \E batch \in Range(BATCHES) :
          ret' = [fn |-> "compose_batch_message",
                  batch |-> batch,
                  collected |-> IF NotDay(file, today) THEN <<>>
                                ELSE collect_batch_slots(file[today], batch),
                  batch_slots |-> IF NotDay(file, today) THEN <<>>
                                  ELSE batch_slots(file[today], batch),
                  value |-> compose_batch_message(file, today, batch)]
    /\ UNCHANGED <<disk, file, today, clock, token, channel, budget, main,
                   nextCheck, firings, daily, alert, lastAlert>>

NextCompose == CallCompose

SpecCompose == InitCompose /\ [][NextCompose]_vars

----------------------------------------------------------------------------
(* get_upcoming_classes called on its own                                  *)

InitDetect ==
    /\ disk = "ok"
    /\ file \in DetectFiles
    /\ today \in DayNames
    /\ clock \in DetectClocks
    /\ Resting

CallDetect ==
    /\ \E L \in Lookaheads :
          ret' = [fn |-> "get_upcoming_classes",
                  notify_minutes_before |-> L,
                  value |-> get_upcoming_classes(file, today, clock, L)]
    /\ UNCHANGED <<disk, file, today, clock, token, channel, budget, main,
                   nextCheck, firings, daily, alert, lastAlert>>

NextDetect == CallDetect

SpecDetect == InitDetect /\ [][NextDetect]_vars

----------------------------------------------------------------------------
(* send_telegram_messages called on its own                                *)

InitSend ==
    /\ disk = "ok"
    /\ file = <<>>
    /\ today = Monday
    /\ clock = FirstClock
    /\ token \in {<<>>, Token}
    /\ channel \in {<<>>, Channel}
    /\ budget = MaxMessages
    /\ main = "off"
    /\ nextCheck = 0
    /\ firings = 0
    /\ daily = IdleDaily
    /\ alert = IdleAlert
    /\ lastAlert = IdleAlert
    /\ ret = NoRet

CallSend ==
    /\ daily.pc = "idle"
    /\ \E messages \in MessageLists : daily' = send_telegram_messages(messages)
    /\ UNCHANGED <<disk, file, today, clock, token, channel, budget, main,
                   nextCheck, firings, alert, lastAlert, ret>>

NextSend == CallSend \/ SendOne

SpecSend == InitSend /\ [][NextSend]_vars

----------------------------------------------------------------------------
(* The program in its default mode                                         *)

Init ==
    /\ disk = "ok"
    /\ file \in FireFiles
    /\ today = Monday
    /\ clock \in StartClocks
    /\ token \in {<<>>, Token}
    /\ channel \in {<<>>, Channel}
    /\ budget = MaxFaults
    /\ main = "starting"
    /\ nextCheck = 0
    /\ firings = 0
    /\ daily = IdleDaily
    /\ alert = IdleAlert
    /\ lastAlert = IdleAlert
    /\ ret = NoRet

Next ==
    \/ StartScheduler
    \/ Tick
    \/ job_send_today
    \/ SendOne
    \/ job_check_preclass
    \/ SkipFiring
    \/ AlertSendOne

Spec == Init /\ [][Next]_vars

----------------------------------------------------------------------------
(* compose_batch_message and the alerts of send_preclass_notifications,    *)
(* built from one document at one minute                                   *)

InitMessages ==
    /\ disk = "ok"
    /\ file \in MessageFiles
    /\ today = Monday
    /\ clock = MessageClock
    /\ Resting

\* ret holds the agenda of one audience and its message, the classes found
\* upcoming, and for each of them the batch_list of lines 283-287 and the
\* message of lines 298-311
CallMessages ==
    /\ \E batch \in Range(BATCHES) :
          LET upcoming == get_upcoming_classes(file, today, clock,
                                               DefaultLookahead)
          IN  ret' = [fn |-> "messages",
                      batch |-> batch,
                      batch_slots |-> IF NotDay(file, today) THEN <<>>
                                      ELSE batch_slots(file[today], batch),
                      message |-> compose_batch_message(file, today, batch),
                      upcoming |-> upcoming,
                      batch_list |-> [k \in 1..Len(upcoming) |->
                                         batch_list(upcoming[k].batches)],
                      alerts |-> [k \in 1..Len(upcoming) |->
                                     final_message(upcoming[k])]]
    /\ UNCHANGED <<disk, file, today, clock, token, channel, budget, main,
                   nextCheck, firings, daily, alert, lastAlert>>

NextMessages == CallMessages

SpecMessages == InitMessages /\ [][NextMessages]_vars


----------------------------------------------------------------------------
(* The sort key of the agenda and the detector, on the same time string    *)

InitParse ==
    /\ disk = "ok"
    /\ file \in ParseFiles
    /\ today = Monday
    /\ clock = 0
    /\ Resting

\* the detector is asked at midnight for the whole day, so that it returns
\* the slot whenever it reads a start time from its string
CallParse ==
    /\ ret' = [fn |-> "parse",
               time |-> file[today][1].time,
               key |-> parse_time_for_sorting(file[today][1].time),
               found |-> get_upcoming_classes(file, today, clock, WholeDay)]
    /\ UNCHANGED <<disk, file, today, clock, token, channel, budget, main,
                   nextCheck, firings, daily, alert, lastAlert>>

NextParse == CallParse

SpecParse == InitParse /\ [][NextParse]_vars


----------------------------------------------------------------------------
(* The interval job firing every IntervalMinutes through one day           *)

\* clock is the minute of the next firing; the first one is at the phase
InitDay ==
    /\ disk = "ok"
    /\ file \in DayFiles
    /\ today = Monday
    /\ clock \in 0..(IntervalMinutes - 1)
    /\ token = <<>>
    /\ channel = <<>>
    /\ budget = 0
    /\ main = "off"
    /\ nextCheck = 0
    /\ firings = 0
    /\ daily = IdleDaily
    /\ alert = IdleAlert
    /\ lastAlert = IdleAlert
    /\ ret = [fn |-> "day", detections |-> 0]

\* lines 335-337 and 267-276: one firing, counted when it finds the slot
DayFiring ==
    /\ ret.fn = "day"
    /\ clock <= LastMinute
    /\ LET upcoming == get_upcoming_classes(load_schedule, get_today_name,
                                            clock, DefaultLookahead)
       IN  ret' = [ret EXCEPT !.detections =
                                  IF upcoming # <<>> THEN @ + 1 ELSE @]
    /\ clock' = clock + IntervalMinutes
    /\ UNCHANGED <<disk, file, today, token, channel, budget, main, nextCheck,
                   firings, daily, alert, lastAlert>>

NextDay == DayFiring

SpecDay == InitDay /\ [][NextDay]_vars


----------------------------------------------------------------------------
(* The program in its default mode, started on any file                    *)

InitAnyFile ==
    /\ disk \in DiskStates
    /\ file \in FaultyFiles
    /\ today = Monday
    /\ clock \in StartClocks
    /\ token \in {<<>>, Token}
    /\ channel = Channel
    /\ budget = MaxFaults
    /\ main = "starting"
    /\ nextCheck = 0
    /\ firings = 0
    /\ daily = IdleDaily
    /\ alert = IdleAlert
    /\ lastAlert = IdleAlert
    /\ ret = NoRet

SpecAnyFile == InitAnyFile /\ [][Next]_vars


----------------------------------------------------------------------------
(* The program in its default mode, with the file edited from outside      *)

InitEdit ==
    /\ disk = "ok"
    /\ file \in EditFiles
    /\ today = Monday
    /\ clock = FirstStart
    /\ token \in {<<>>, Token}
    /\ channel = Channel
    /\ budget = MaxFaults
    /\ main = "starting"
    /\ nextCheck = 0
    /\ firings = 0
    /\ daily = IdleDaily
    /\ alert = IdleAlert
    /\ lastAlert = IdleAlert
    /\ ret = NoRet

\* somebody saves another document at SCHEDULE_FILE, at any moment
EditFile ==
    /\ main = "running"
    /\ file' \in EditFiles \ {file}
    /\ UNCHANGED <<disk, today, clock, token, channel, budget, main, nextCheck,
                   firings, daily, alert, lastAlert, ret>>

NextEdit == Next \/ EditFile

SpecEdit == InitEdit /\ [][NextEdit]_vars


----------------------------------------------------------------------------
(* The program in its default mode on a transport that may stall.  A post  *)
(* that returns is followed by the next step of its loop.                  *)

InitStall ==
    /\ disk = "ok"
    /\ file \in StallFiles
    /\ today = Monday
    /\ clock = FirstStart
    /\ token = Token
    /\ channel = Channel
    /\ budget = MaxFaults
    /\ main = "starting"
    /\ nextCheck = 0
    /\ firings = 0
    /\ daily = IdleDaily
    /\ alert = IdleAlert
    /\ lastAlert = IdleAlert
    /\ ret = NoRet

NextStall == Next \/ Stall \/ AlertStall

SpecStall ==
    /\ InitStall
    /\ [][NextStall]_vars
    /\ WF_vars(SendOne)
    /\ WF_vars(AlertSendOne)


----------------------------------------------------------------------------
(* Properties                                                              *)

\* the audience rule as the specification words it
Roster == {<<"A">>, <<"B">>, <<"C">>, <<"D">>, <<"E">>}

SaidToApply(x, a) ==
    LET b == Get(x, "batches", <<>>)
    IN  a \in Range(b) \/ All \in Range(b) \/ Range(b) = Roster

Composed == ret.fn = "compose_batch_message"

\* activity x of slot s is in the agenda that was built
InAgenda(s, x) ==
    \E e \in Range(ret.batch_slots) :
        e.time = Get(s, "time", <<>>) /\ x \in Range(e.acts)

\* C1: on a present day, an activity is in the agenda built for a roster
\* audience exactly when the audience is in its batches, or its batches hold
\* the wildcard "All", or its batches equal the roster as a set.
C1_AgendaAudienceRule ==
    (Composed /\ ~NotDay(file, today)) =>
        \A s \in Range(file[today]) :
            \A x \in Range(Get(s, "activities", <<>>)) :
                InAgenda(s, x) <=> SaidToApply(x, ret.batch)

\* C1 witness: for audience C, the wildcard slot and the enumerated-roster
\* slot are in the agenda and the slot of batches A, B is not.
C1_Witness ==
    /\ Composed
    /\ ret.batch = <<"C">>
    /\ ~NotDay(file, today)
    /\ Len(file[today]) = 3
    /\ Get(file[today][1], "time", <<>>) = TimeRange(540)
    /\ Get(file[today][2], "time", <<>>) = TimeRange(480)
    /\ Get(file[today][3], "time", <<>>) = TimeRange(1020)
    /\ Len(ret.batch_slots) = 2
    /\ ret.batch_slots[1].time = TimeRange(480)
    /\ ret.batch_slots[2].time = TimeRange(1020)

\* the start minute of a time range as the specification words it: the text
\* before the first "-" read as hours and minutes
StartOf(time_str) == HourMinute(Strip(Split(time_str, "-")[1]))

SameRank(t, u) ==
    \/ ~StartOf(t).ok /\ ~StartOf(u).ok
    \/ StartOf(t).ok /\ StartOf(u).ok /\ StartOf(t).v = StartOf(u).v

\* C2: the agenda is non-decreasing by start minute, every unparseable entry
\* comes after every parseable one, and unparseable entries and ties keep
\* their document order.
C2_SortedUnparseableLast ==
    Composed =>
        /\ \A i, j \in 1..Len(ret.batch_slots) :
              i < j =>
                  LET a == StartOf(ret.batch_slots[i].time)
                      b == StartOf(ret.batch_slots[j].time)
                  IN  /\ (a.ok /\ b.ok) => a.v <= b.v
                      /\ ~(~a.ok /\ b.ok)
        /\ \A e \in Range(ret.collected) :
              LET Tied(x) == SameRank(x.time, e.time)
              IN  SelectSeq(ret.batch_slots, Tied) = SelectSeq(ret.collected, Tied)

\* no activity of the day is for the audience
NothingFor(a) ==
    \A s \in Range(file[today]) :
        \A x \in Range(Get(s, "activities", <<>>)) : ~SaidToApply(x, a)

\* C3: an absent day gives the holiday message; a present day, its slot list
\* empty or not, with no entry for the audience gives the "no classes for this
\* batch" message; the two messages differ.
C3_HolidayVersusNoClasses ==
    Composed =>
        /\ today \notin DOMAIN file => ret.value.body = HolidayText
        /\ (today \in DOMAIN file /\ NothingFor(ret.batch))
              => ret.value.body = NoBatchText
        /\ HolidayText # NoBatchText

Detected == ret.fn = "get_upcoming_classes"

\* activity x of slot s is among the classes that were returned
Returned(s, x) ==
    \E u \in Range(ret.value) :
        /\ u.time = Get(s, "time", <<>>)
        /\ u.subject = Get(x, "subject", Unknown)
        /\ u.batches = Get(x, "batches", <<>>)

\* the slots of the day the detector reads a start minute from
Timed(s) ==
    /\ "-" \in Range(Get(s, "time", <<>>))
    /\ StartOf(Get(s, "time", <<>>)).ok

\* C4: at minute T with lookahead L, the activities of a slot starting at
\* minute S are returned exactly when 0 <= S - T <= L.
C4_WindowIsClosed ==
    (Detected /\ ~NotDay(file, today)) =>
        \A s \in Range(file[today]) :
            Timed(s) =>
                LET S == StartOf(s.time).v
                    T == clock
                    L == ret.notify_minutes_before
                IN  \A x \in Range(Get(s, "activities", <<>>)) :
                        Returned(s, x) <=> (0 <= S - T /\ S - T <= L)

\* C4 witness: at 08:45 with lookahead 15 the 09:00 slot, exactly at the end
\* of the window, is returned.
C4_Witness ==
    /\ Detected
    /\ clock = 525
    /\ ret.notify_minutes_before = 15
    /\ \E u \in Range(ret.value) :
          u.time = TimeRange(540) /\ u.minutes_until = 15

\* the posts of a run, in the order they were made
Posts(run) == LET IsPost(e) == e.op = "post" IN SelectSeq(run.trace, IsPost)

Oks(run) == Cardinality({k \in 1..Len(Posts(run)) : Posts(run)[k].outcome = "ok"})

\* C5: with credentials, the messages are attempted once each, in order,
\* whatever the outcomes; no outcome ends the batch early; the summary's
\* count is the number of successful sends.
C5_EveryMessageAttempted ==
    ~NoCredentials =>
        /\ Len(Posts(daily)) <= Len(daily.messages)
        /\ \A k \in 1..Len(Posts(daily)) :
              /\ Posts(daily)[k].text = daily.messages[k].message
              /\ Posts(daily)[k].batch = daily.messages[k].batch
        /\ daily.pc = "done" => Len(Posts(daily)) = Len(daily.messages)
        /\ daily.pc = "sending" => Len(Posts(daily)) < Len(daily.messages)
        /\ daily.successful_sends = Oks(daily)

\* C5 witness: five messages, the third send raised, the others succeeded:
\* four are counted and the fourth and fifth were attempted.
C5_Witness ==
    /\ ~NoCredentials
    /\ daily.pc = "done"
    /\ Len(daily.messages) = 5
    /\ Len(Posts(daily)) = 5
    /\ Posts(daily)[3].outcome = "exception"
    /\ \A k \in {1, 2, 4, 5} : Posts(daily)[k].outcome = "ok"
    /\ daily.successful_sends = 4

\* C6: with credentials, a throttle wait separates every two successive
\* sends, whatever the outcome of the earlier one, and none follows the last.
C6_ThrottleBetweenSends ==
    ~NoCredentials =>
        /\ \A k \in 1..(Len(daily.trace) - 1) :
              (daily.trace[k].op = "post") => (daily.trace[k + 1].op = "sleep")
        /\ (daily.pc = "done" /\ daily.trace # <<>>)
              => daily.trace[Len(daily.trace)].op = "post"

\* C7: when the token or the channel is empty, neither job sends anything
\* over the network, each composed message is printed once, in order, and
\* the runs end without being left midway.
C7_NoCredentialsPrintsOnly ==
    (token = <<>> \/ channel = <<>>) =>
        /\ daily.trace = <<>> /\ alert.trace = <<>> /\ lastAlert.trace = <<>>
        /\ daily.pc \in {"idle", "done"}
        /\ alert.pc \in {"idle", "done"}
        /\ daily.pc = "done" =>
              /\ Len(daily.sink) = Len(daily.messages)
              /\ \A k \in 1..Len(daily.sink) :
                    daily.sink[k] = daily.messages[k].message
        /\ alert.pc = "done" =>
              /\ Len(alert.sink) = Len(alert.upcoming)
              /\ \A k \in 1..Len(alert.sink) :
                    alert.sink[k].text = compose_preclass_message(alert.upcoming[k])

\* C7 witness: the channel alone is missing; the daily run printed its five
\* messages and the interval run printed two alerts.
C7_Witness ==
    /\ token # <<>>
    /\ channel = <<>>
    /\ daily.pc = "done"
    /\ Len(daily.sink) = 5
    /\ alert.pc = "done"
    /\ Len(alert.sink) = 2

\* the window as the specification words it
SaidImminent(s, T) ==
    /\ Timed(s)
    /\ 0 <= StartOf(s.time).v - T
    /\ StartOf(s.time).v - T <= 15

\* an alert for activity x of slot s was posted or printed by the run
Dispatched(run, s, x) ==
    LET Same(m) ==
            /\ m.subject = html_escape(Get(x, "subject", Unknown))
            /\ m.type = html_escape(Get(x, "type", <<>>))
            /\ m.start_time = html_escape(Strip(Split(s.time, "-")[1]))
    IN  \/ \E k \in 1..Len(Posts(run)) : Same(Posts(run)[k].text.body)
        \/ \E k \in 1..Len(run.sink) : Same(run.sink[k].text)

TwoFirings ==
    /\ lastAlert.pc = "done"
    /\ alert.pc = "done"
    /\ alert.at = lastAlert.at + 5

\* C8: a slot inside the window at two firings five minutes apart has an
\* alert dispatched for each of its activities by both runs.
C8_AlertedAtBothFirings ==
    TwoFirings =>
        \A s \in Range(Get(alert.sched, today, <<>>)) :
            (SaidImminent(s, lastAlert.at) /\ SaidImminent(s, alert.at)) =>
                \A x \in Range(Get(s, "activities", <<>>)) :
                    Dispatched(lastAlert, s, x) /\ Dispatched(alert, s, x)

\* C8 witness: the 07:10 class is alerted at 07:00 and again at 07:05.
C8_Witness ==
    /\ TwoFirings
    /\ ~NoCredentials
    /\ lastAlert.at = 420
    /\ Slot0710 \in Range(Get(alert.sched, today, <<>>))
    /\ Dispatched(lastAlert, Slot0710, Slot0710.activities[1])
    /\ Dispatched(alert, Slot0710, Slot0710.activities[1])

RosterOrder == << <<"A">>, <<"B">>, <<"C">>, <<"D">>, <<"E">> >>

\* C9: a run of the daily job holds one message per roster audience, in the
\* order A, B, C, D, E, and dispatches them in that order as one batch.
C9_OneMessagePerAudience ==
    daily.pc # "idle" =>
        /\ Len(daily.messages) = 5
        /\ \A k \in 1..Len(daily.messages) :
              /\ daily.messages[k].batch = RosterOrder[k]
              /\ daily.messages[k].message.batch = RosterOrder[k]
        /\ daily.pc = "done" =>
              IF NoCredentials
              THEN [k \in 1..Len(daily.sink) |-> daily.sink[k].batch] = RosterOrder
              ELSE [k \in 1..Len(Posts(daily)) |-> Posts(daily)[k].batch]
                       = RosterOrder

\* C9 witness: on a Monday whose only class is for C, the run sent five
\* messages: "no classes for this batch" for A, an agenda for C.
C9_Witness ==
    /\ ~NoCredentials
    /\ daily.pc = "done"
    /\ Len(Posts(daily)) = 5
    /\ daily.messages[1].message.body = NoBatchText
    /\ daily.messages[3].message.body = AgendaText

\* the activities of the qualifying slots of a day, in document order
RECURSIVE Qualifying(_, _)
Qualifying(day, T) ==
    IF day = <<>> THEN <<>>
    ELSE (IF SaidImminent(day[1], T) THEN Get(day[1], "activities", <<>>)
          ELSE <<>>) \o Qualifying(Tail(day), T)

\* C10: a finished interval run has dispatched one alert per activity of the
\* qualifying slots, each carrying the activity's own batches, each posted
\* on its own, whatever the outcome of the alerts before it.
C10_OneAlertPerActivity ==
    alert.pc = "done" =>
        LET Q == Qualifying(Get(alert.sched, today, <<>>), alert.at)
        IN  /\ Len(alert.upcoming) = Len(Q)
            /\ \A k \in 1..Len(alert.upcoming) :
                  /\ alert.upcoming[k].batches = Get(Q[k], "batches", <<>>)
                  /\ alert.upcoming[k].subject = Get(Q[k], "subject", Unknown)
            /\ Len(Posts(alert)) + Len(alert.sink) = Len(Q)
            /\ \A k \in 1..Len(Posts(alert)) :
                  Posts(alert)[k].text = final_message(alert.upcoming[k])

\* C10 witness: of the two alerts of the 07:10 slot the first failed and the
\* second, for all batches, was still sent.
C10_Witness ==
    /\ alert.pc = "done"
    /\ Len(Posts(alert)) = 2
    /\ Posts(alert)[1].outcome = "failed"
    /\ Posts(alert)[2].outcome = "ok"
    /\ Posts(alert)[1].text.header
           = <<"B", "a", "t", "c", "h", "e", "s", " ", "A", ",", " ", "B">>
    /\ Posts(alert)[2].text.header[1] = "A"
    /\ alert.notifications_sent = 1


\* the names html.escape writes after an ampersand
Entities ==
    { <<"a", "m", "p", ";">>, <<"l", "t", ";">>, <<"g", "t", ";">>,
      <<"q", "u", "o", "t", ";">>, <<"#", "x", "2", "7", ";">> }

\* text holds no angle bracket, and each of its ampersands begins an entity
MarkupFree(text) ==
    \A i \in 1..Len(text) :
       /\ text[i] \notin {"<", ">"}
       /\ text[i] = "&" =>
             \E e \in Entities :
                /\ i + Len(e) <= Len(text)
                /\ SubSeq(text, i + 1, i + Len(e)) = e

\* the values interpolated into one entry of a daily agenda message
EntryValues(e) ==
    {e.time} \cup {e.acts[j].subject : j \in 1..Len(e.acts)}
             \cup {e.acts[j].type : j \in 1..Len(e.acts)}
             \cup {e.acts[j].location : j \in 1..Len(e.acts)}

\* the values interpolated into a daily agenda message
AgendaValues(m) ==
    {m.batch, m.day}
    \cup UNION {EntryValues(m.entries[i]) : i \in 1..Len(m.entries)}

\* the values interpolated into an alert, its header line among them
AlertValues(m) ==
    {m.header, m.body.subject, m.body.type, m.body.start_time, m.body.location}

\* C11: no message sent in HTML mode, daily agenda or pre-class alert with
\* its batch header, holds an unescaped "<", ">" or "&" that comes from the
\* timetable: subject, type, location, time string, day name, audience labels
C11_NoRawMarkup ==
    ret.fn = "messages" =>
       /\ \A v \in AgendaValues(ret.message) : MarkupFree(v)
       /\ \A k \in 1..Len(ret.alerts) :
             \A v \in AlertValues(ret.alerts[k]) : MarkupFree(v)


\* the upcoming class u is an activity of audience a's agenda
InAgendaOf(u, slots) ==
    \E i \in 1..Len(slots) :
       /\ slots[i].time = u.time
       /\ \E j \in 1..Len(slots[i].acts) :
             /\ Get(slots[i].acts[j], "subject", Unknown) = u.subject
             /\ Get(slots[i].acts[j], "batches", <<>>) = u.batches

\* the alert whose batch list is list is labelled "All Batches" or names a
Targets(list, a) == list = <<AllBatches>> \/ a \in Range(list)

\* C15: the audience rule of the alerts agrees with the one of the agendas:
\* an activity is in roster audience a's daily agenda exactly when its
\* pre-class alert targets a, being labelled "All Batches" or listing a
C15_AlertAudienceAgrees ==
    ret.fn = "messages" =>
       \A k \in 1..Len(ret.upcoming) :
          InAgendaOf(ret.upcoming[k], ret.batch_slots)
             <=> Targets(ret.batch_list[k], ret.batch)


\* the detector read start minute S from the slot's time string
Assigned(S) == ret.found # <<>> /\ ret.found[1].minutes_until + clock = S

\* C19: the two time parsers agree on a slot's time string: the detector
\* assigns start minute S exactly when the agenda's sort key is S, and it
\* skips the slot as unparseable exactly when the agenda sorts it with the
\* sentinel of an unparseable time
C19_ParsersAgree ==
    ret.fn = "parse" =>
       /\ \A S \in (0..WholeDay) \ {UnparseableKey} :
             Assigned(S) <=> ret.key = S
       /\ ret.found = <<>> <=> ret.key = UnparseableKey


\* every firing of the day has been made
DayOver == ret.fn = "day" /\ clock > LastMinute

\* what the detector's parser reads from the one slot of the day
DayStart == parse_time_to_minutes(Strip(Split(file[today][1].time, "-")[1]))

\* C18, as stated: with the interval job firing every 5 minutes through a
\* day at any phase and a lookahead of 15, every slot with a parseable start
\* minute S >= 15 is detected by at least 3 and at most 4 firings
C18_ThreeOrFourFirings ==
    DayOver /\ DayStart.ok /\ DayStart.v >= DefaultLookahead =>
       ret.detections \in 3..4

\* C18, amended: the same for every slot whose start minute S is a minute
\* of the day, 15 <= S <= 1439
C18_ThreeOrFourWithinDay ==
    DayOver /\ DayStart.ok /\ DayStart.v >= DefaultLookahead
            /\ DayStart.v <= LastMinute =>
       ret.detections \in 3..4

C18_Witness ==
    /\ DayOver
    /\ DayStart.ok
    /\ DayStart.v \in DefaultLookahead..LastMinute
    /\ ret.detections = 4


\* C12: in the default long-running mode a timetable that is missing or
\* malformed is fatal at startup: the process stops before either timer is
\* installed, so the scheduler never runs on such a file
C12_UnreadableFileStopsStartup == LoadRaises => main # "running"

\* C13: a batches or time field of the wrong type inside one slot or
\* activity never aborts a cycle, daily or interval: the entry is skipped or
\* neutralised and the cycle goes on with every other entry
C13_BadFieldNeverAborts ==
    ~LoadRaises => daily.pc # "raised" /\ alert.pc # "raised"


\* the interval job ran at this step, and the daily job ran at this step
IntervalFired == firings' = firings + 1 /\ alert.pc # "sending"
DailyFired == daily.pc = "idle" /\ daily'.pc # "idle"

\* C14: both triggers reload the timetable at every firing and cache
\* nothing: whatever was saved at the path before a firing, the firing
\* computes its messages from the document that is there when it fires
C14_EveryFiringReloads ==
    [][ /\ IntervalFired =>
              alert' = send_preclass_notifications(file, today, clock)
        /\ DailyFired =>
              daily' = send_telegram_messages(build_batch_messages(file, today))
      ]_vars

\* two firings of the interval job with an edit between them, the second
\* alerting from the edited document
C14_Witness ==
    /\ lastAlert.pc = "done"
    /\ alert.pc = "done"
    /\ alert.sched # lastAlert.sched
    /\ alert.sched = file
    /\ alert.notifications_sent > 0
    /\ daily.pc = "done"


\* C16: every network call has a bounded timeout, so a dispatch cycle that
\* has started eventually completes even when the transport stalls, and a
\* stalled transport does not keep the next firing from running
C16_DispatchCompletes ==
    /\ (daily.pc = "sending") ~> (daily.pc = "done")
    /\ (alert.pc = "sending") ~> (alert.pc = "done")


\* the outcomes the transport gave to the posts of a run, in order
OutcomesOf(run) == [k \in 1..Len(Posts(run)) |-> Posts(run)[k].outcome]

\* what a run executed alone posts when the transport gives these outcomes
\* to the texts it has to send, and how many deliveries it counts
SoloPosts(texts, outcomes) ==
    [k \in 1..Len(outcomes) |-> [text |-> texts[k], outcome |-> outcomes[k]]]

SoloCount(outcomes) ==
    Cardinality({k \in 1..Len(outcomes) : outcomes[k] = "ok"})

\* the texts each job has to send from the document at the minute it fired
DailyTexts ==
    [k \in 1..Len(BATCHES) |->
        compose_batch_message(file, today, BATCHES[k])]

AlertTexts ==
    LET upcoming == get_upcoming_classes(file, today, alert.at,
                                         DefaultLookahead)
    IN  [k \in 1..Len(upcoming) |-> final_message(upcoming[k])]

PostsOf(run) ==
    [k \in 1..Len(Posts(run)) |->
        [text |-> Posts(run)[k].text, outcome |-> Posts(run)[k].outcome]]

\* C17: however a run of the daily job and a run of the interval job
\* interleave, the send attempts of each and its own count of deliveries
\* are those of the run executed alone on the same document, clock and
\* transport outcomes: the two share no mutable state
C17_RunsDoNotInterfere ==
    ~NoCredentials /\ daily.pc # "idle" /\ alert.pc # "idle" =>
       /\ Len(Posts(daily)) <= Len(DailyTexts)
       /\ PostsOf(daily) = SoloPosts(DailyTexts, OutcomesOf(daily))
       /\ daily.successful_sends = SoloCount(OutcomesOf(daily))
       /\ Len(Posts(alert)) <= Len(AlertTexts)
       /\ PostsOf(alert) = SoloPosts(AlertTexts, OutcomesOf(alert))
       /\ alert.notifications_sent = SoloCount(OutcomesOf(alert))
       /\ daily.pc = "done" => Len(Posts(daily)) = Len(DailyTexts)
       /\ alert.pc = "done" => Len(Posts(alert)) = Len(AlertTexts)

\* both runs are between two posts, each with a delivery of its own made
\* after the other run had started
C17_Witness ==
    /\ daily.pc = "sending"
    /\ alert.pc = "sending"
    /\ daily.successful_sends > 0
    /\ alert.notifications_sent > 0
    /\ Len(Posts(daily)) > daily.successful_sends

====
